---------------------------- MODULE Spec2Model ----------------------------
(***************************************************************************)
(* A model of the multi-task controller XTransMAC                          *)
(* (src/src/controllers/multi_task/xtrans_controller.py) and of the        *)
(* attention mixer QMixer (src/src/modules/mixers/attn_x.py).              *)
(*                                                                         *)
(* Numbers.  Floating-point probabilities are modelled as exact rationals  *)
(* [n |-> numerator, d |-> denominator]; d = 0 stands for a non-finite     *)
(* float (inf or nan, the result of a division by zero).  exp is a         *)
(* fixed-point table scaled by ExpScale which underflows to 0 the way the  *)
(* float32 exp does.  Logits, observations and network weights are small   *)
(* integers.                                                               *)
(***************************************************************************)
EXTENDS Integers, Sequences, FiniteSets, TLC

VARIABLES
    main_args,          \* [agent_output_type, mask_before_softmax]
    epsilon,            \* action_selector.epsilon, as a numerator over EpsDen
    hidden_states,      \* "None", or one recurrent value per (batch x agent) row
    task2repre,         \* task -> stored representation vector
    agent_w,            \* weights of self.agent (state_dict)
    dynamic_encoder_w,  \* weights of self.dynamic_encoder (state_dict)
    disk,               \* files written by save_models / save_task_repres
    ret,                \* what the last controller call returned or raised
    call,               \* the arguments the runner passes to forward / select_actions
    mixer,              \* QMixer: its construction-time attributes and weights
    mix_in,             \* the arguments of the current QMixer.forward call
    mix_ret             \* what the last QMixer.forward returned or raised

ctrl_vars == <<main_args, epsilon, hidden_states, task2repre, agent_w,
               dynamic_encoder_w, disk, ret, call>>
mix_vars == <<mixer, mix_in, mix_ret>>
vars == <<main_args, epsilon, hidden_states, task2repre, agent_w,
          dynamic_encoder_w, disk, ret, call, mixer, mix_in, mix_ret>>

---------------------------------------------------------------------------
(* Bounds of the model *)

\* observations of one agent are drawn from -MaxObs .. MaxObs
MaxObs == 1
\* epsilon is drawn from {0, 1/EpsDen, ..., 1}
EpsDen == 2
\* th.rand entries are drawn from {0, 1/(MaxRand+1), ..., MaxRand/(MaxRand+1)}
MaxRand == 1

---------------------------------------------------------------------------
(* Generic helpers *)

RECURSIVE SumSeq(_)
SumSeq(s) == IF s = <<>> THEN 0 ELSE Head(s) + SumSeq(Tail(s))

RECURSIVE MaxSeq(_)
MaxSeq(s) == IF Len(s) = 1 THEN s[1]
             ELSE LET m == MaxSeq(Tail(s)) IN IF Head(s) > m THEN Head(s) ELSE m

Abs(x) == IF x < 0 THEN -x ELSE x

\* the sequence s as a tuple: its elements are computed once, here
Tup(s) == s \o <<>>

Dot(u, v) == SumSeq(Tup([i \in 1..Len(u) |-> u[i] * v[i]]))

\* a finite float n/d
Rat(n, d) == [n |-> n, d |-> d]
\* inf or nan
NonFinite == [n |-> 1, d |-> 0]

IsZero(p) == p.d > 0 /\ p.n = 0
\* p >= a/b for finite p and b > 0
RatGeq(p, a, b) == p.d > 0 /\ p.n * b >= a * p.d

RECURSIVE Gcd(_, _)
Gcd(a, b) == IF b = 0 THEN a ELSE Gcd(b, a % b)

\* a finite float in lowest terms
Reduce(p) == LET g == Gcd(Abs(p.n), p.d) IN Rat(p.n \div g, p.d \div g)

RatAdd(p, q) == IF p.d = 0 \/ q.d = 0 THEN NonFinite
                ELSE Reduce(Rat(p.n * q.d + q.n * p.d, p.d * q.d))

RECURSIVE RatSum(_)
RatSum(s) == IF s = <<>> THEN Rat(0, 1) ELSE RatAdd(Head(s), RatSum(Tail(s)))

RECURSIVE SelectIdx(_, _, _)
\* the entries of s at the indices i >= from with keep[i] = 1, in order
SelectIdx(s, keep, from) ==
    IF from > Len(s) THEN <<>>
    ELSE IF keep[from] = 1 THEN <<s[from]>> \o SelectIdx(s, keep, from + 1)
    ELSE SelectIdx(s, keep, from + 1)

OneHot(i, n) == Tup([j \in 1..n |-> IF j = i THEN 1 ELSE 0])
Zeros(n) == Tup([j \in 1..n |-> 0])

---------------------------------------------------------------------------
(* Tasks and their static attributes *)

\* main_args.task_repre_dim
ReprDim == 2

train_tasks == <<"t1", "t2">>
Tasks == {train_tasks[i] : i \in 1..Len(train_tasks)}

\* task2args[task].n_agents
task2n_agents == [t1 |-> 1, t2 |-> 2]
\* task2scheme[task]["actions_onehot"]["vshape"][0]
task2n_actions == [t1 |-> 3, t2 |-> 2]
\* task2args[task].obs_last_action / obs_agent_id
task2obs_last_action == [t1 |-> FALSE, t2 |-> TRUE]
task2obs_agent_id == [t1 |-> FALSE, t2 |-> TRUE]

ObsVals == (-MaxObs)..MaxObs
EpsVals == 0..EpsDen
AvailMasks(n) == [1..n -> {0, 1}]
\* weights of the shared policy, one per action output
AgentWeights == {<<1, 0, -1>>, <<0, 1, 1>>}
EncoderWeights == {1, 2}

\* the availability mask of the next agent of a drawn batch: the mask reversed
Reversed(mask) == Tup([i \in 1..Len(mask) |-> mask[Len(mask) + 1 - i]])

\* An episode-batch slice of one episode (batch_size 1): the timestep t, and
\* per agent the observation and the availability mask at t and the action
\* taken at t-1.  The first agent's row is drawn freely; forward treats the
\* rows alike, and every further row is the row before it with the
\* observation negated, the mask reversed and the action shifted by one.
\* t and the previous action are drawn only where _build_inputs reads them.
Batches(task) ==
    LET n == task2n_agents[task]
        k == task2n_actions[task]
        obs(o) == Tup([r \in 1..n |-> IF r % 2 = 1 THEN o ELSE -o])
        avail(m) == Tup([r \in 1..n |-> IF r % 2 = 1 THEN m ELSE Reversed(m)])
        prev(p) == Tup([r \in 1..n |-> ((p + r - 2) % k) + 1])
    IN  {[batch_size |-> 1, t |-> tp[1], obs |-> obs(o), avail_actions |-> avail(m),
          prev_action |-> prev(tp[2])] :
            o \in ObsVals, m \in AvailMasks(k),
            tp \in IF task2obs_last_action[task]
                   THEN {<<0, 1>>} \cup ({1} \X (1..k))
                   ELSE {<<0, 1>>}}

AllBatches == [task \in Tasks |-> Batches(task)]
\* one batch per task
SmallBatches ==
    [task \in Tasks |->
        {b \in Batches(task) : b.t = 0 /\ b.obs[1] = 1
                               /\ \A i \in 1..task2n_actions[task] :
                                     b.avail_actions[1][i] = 1}]

---------------------------------------------------------------------------
(* exp and softmax *)

\* below this argument the float32 exp is exactly 0
ExpUnderflow == -104
\* The value written over the logits of unavailable actions.  The source
\* writes -1e10; the model's integers are 32 bits wide, so the model writes
\* -1e9, which lies as far below ExpUnderflow from every logit it draws.
MaskValue == -1000000000

ExpTable == <<100, 37, 14, 5, 2>>
ExpScale == ExpTable[1]
\* ExpScale * e^x for x <= 0, rounded, positive until exp underflows
ExpFx(x) == IF x <= ExpUnderflow THEN 0
            ELSE IF -x + 1 > Len(ExpTable) THEN 1
            ELSE ExpTable[-x + 1]

\* th.nn.functional.softmax(row, dim=-1)
Softmax(row) ==
    LET m == MaxSeq(row)
        w == Tup([i \in 1..Len(row) |-> ExpFx(row[i] - m)])
    IN  Tup([i \in 1..Len(row) |-> Rat(w[i], SumSeq(w))])

---------------------------------------------------------------------------
(* Task representations *)

RECURSIVE ProdNsq(_, _)
\* the product of the squared norms of out[1..j]
ProdNsq(out, j) == IF j = 0 THEN 1 ELSE ProdNsq(out, j - 1) * Dot(out[j], out[j])

RECURSIVE ProjSum(_, _, _, _)
\* ProdNsq(out, n) times the sum of the projections of x on out[1..j]
ProjSum(x, out, j, n) ==
    IF j = 0 THEN Zeros(Len(x))
    ELSE LET rest == ProjSum(x, out, j - 1, n)
             c == Dot(x, out[j]) * (ProdNsq(out, n) \div Dot(out[j], out[j]))
         IN  Tup([k \in 1..Len(x) |-> rest[k] + c * out[j][k]])

\* PerpTo that leaves the projections in
PerpTo_Keep(x, out) == x

\* x minus its projections on every vector of out, times the positive factor
\* ProdNsq(out, Len(out))
PerpTo(x, out) ==
    LET n == Len(out)
        proj == ProjSum(x, out, n, n)
    IN  Tup([k \in 1..Len(x) |-> x[k] * ProdNsq(out, n) - proj[k]])

RECURSIVE GramSchmidt(_, _)
\* sympy GramSchmidt of the first i vectors of matrix: each vector minus its
\* projections on the earlier results.  Every result is kept as an integer
\* vector, a positive multiple of sympy's (the row normalisation that follows
\* removes the factor).  A zero result stops the orthogonalisation: sympy
\* raises ValueError there, and the vectors after it are not computed.
GramSchmidt(matrix, i) ==
    IF i = 0 THEN <<>>
    ELSE LET out == GramSchmidt(matrix, i - 1)
         IN  IF Len(out) < i - 1 \/ (i > 1 /\ Dot(out[i - 1], out[i - 1]) = 0)
             THEN out
             ELSE Append(out, PerpTo(matrix[i], out))

\* GramSchmidt raises ValueError when a result is the zero vector
LinearlyIndependent(matrix) ==
    LET gram == GramSchmidt(matrix, Len(matrix))
    IN  /\ Len(gram) = Len(matrix)
        /\ Dot(gram[Len(gram)], gram[Len(gram)]) > 0

\* F.normalize(row, dim=1): the vector v / sqrt(nsq)
Normalize(row) == [v |-> row, nsq |-> Dot(row, row)]

\* orthogo_tensor(x)
OrthogoTensor(x) ==
    LET gram == GramSchmidt(x, Len(x))
    IN  Tup([i \in 1..Len(x) |-> Normalize(gram[i])])

\* th.rand((len(train_tasks), task_repre_dim))
RandMatrices == [1..Len(train_tasks) -> [1..ReprDim -> 0..MaxRand]]

\* init_task_repres: task2repre built from the random matrix
InitTaskRepres(rand) ==
    LET task_repres == OrthogoTensor(rand)
    IN  [task \in Tasks |->
            task_repres[CHOOSE i \in 1..Len(train_tasks) : train_tasks[i] = task]]

\* GetTaskRepresRows that returns the stored vector once, not per agent
GetTaskRepresRows_Once(repre, task) == <<repre[task]>>

\* get_task_repres(task, require_grad): an AssertionError, or the stored
\* vector repeated n_agents times
GetTaskRepresRows(repre, task) == Tup([a \in 1..task2n_agents[task] |-> repre[task]])

GetTaskRepresErr(require_grad) == IF require_grad THEN "AssertionError" ELSE "none"

---------------------------------------------------------------------------
(* The collaborators of the controller *)

NoHidden == [init |-> FALSE, h |-> <<>>]

\* self.agent(agent_inputs, hidden_states, task_repre, task): the shared
\* policy.  It needs a hidden state of one value per input row; its logits
\* are an affine function of the input row, the hidden value and the task
\* representation, its new hidden state a function of the old one and the
\* observation.
AgentErr(inputs, hidden) ==
    IF ~hidden.init THEN "HiddenStateError"
    ELSE IF Len(hidden.h) # Len(inputs) THEN "ShapeError"
    ELSE "none"

AgentOuts(inputs, hidden, task_repre, task, w) ==
    Tup([r \in 1..Len(inputs) |->
        Tup([i \in 1..task2n_actions[task] |->
            w[i] * inputs[r][1]
            + (IF Len(inputs[r]) >= 1 + i THEN inputs[r][1 + i] ELSE 0)
            + (IF i = 1 THEN hidden.h[r] ELSE 0)
            + (IF i = 2 /\ task_repre[r].v[1] > 0 THEN 1 ELSE 0)])])

AgentHidden(inputs, hidden) ==
    [init |-> TRUE,
     h |-> Tup([r \in 1..Len(inputs) |-> (hidden.h[r] + Abs(inputs[r][1])) % 2])]

\* self.agent.init_hidden(): the zero seed of the recurrent state
AgentInitHidden == 0

\* action_selector.select_action(agent_outputs, avail_actions, t_env,
\* test_mode): for every agent an available action (of positive probability
\* when the outputs are probabilities)
Selectable(args, outs_row, avail_row) ==
    {i \in 1..Len(avail_row) :
        /\ avail_row[i] = 1
        /\ args.agent_output_type = "pi_logits" => outs_row[i].d > 0 /\ outs_row[i].n > 0}

\* weights of self.task2dynamic_decoder[task]
task2decoder_w == [t1 |-> 1, t2 |-> 2]

\* self.dynamic_encoder(obs, state, actions, task, task_repre)
DynamicEncoder(enc_w, obs, state, actions, task, task_repre) ==
    [latent |-> enc_w * (SumSeq(obs) + state)
                + SumSeq(Tup([r \in 1..Len(actions) |-> r * Dot(actions[r], actions[1])])),
     bs |-> Len(obs) \div task2n_agents[task]]

\* self.task2dynamic_decoder[task](encoded_latent, bs)
DynamicDecoder(task, latent, bs) ==
    [next_obs |-> latent + task2decoder_w[task],
     next_state |-> latent - task2decoder_w[task],
     reward |-> latent * task2decoder_w[task]]

---------------------------------------------------------------------------
(* XTransMAC.forward *)

\* _build_inputs(batch, t, task): one row per (batch element x agent), the
\* observation, then the one-hot of the action at t-1 (zeros at t = 0), then
\* the one-hot agent id
BuildInputs(batch, t, task) ==
    Tup([r \in 1..(batch.batch_size * task2n_agents[task]) |->
        <<batch.obs[r]>>
        \o (IF task2obs_last_action[task]
            THEN IF t = 0 THEN Zeros(task2n_actions[task])
                 ELSE OneHot(batch.prev_action[r], task2n_actions[task])
            ELSE <<>>)
        \o (IF task2obs_agent_id[task]
            THEN OneHot(((r - 1) % task2n_agents[task]) + 1, task2n_agents[task])
            ELSE <<>>)])

\* MaskLogits without the write: the logits reach the softmax unmasked
MaskLogits_Skip(row, avail) == row

\* agent_outs[reshaped_avail_actions == 0] = -1e10
MaskLogits(row, avail) ==
    Tup([i \in 1..Len(row) |-> IF avail[i] = 0 THEN MaskValue ELSE row[i]])

\* EpsilonActionNum that always counts every action
EpsilonActionNum_All(args, row, avail) == Len(row)

\* epsilon_action_num: the number of actions, or with mask_before_softmax the
\* number of available actions of the row
EpsilonActionNum(args, row, avail) ==
    IF args.mask_before_softmax THEN SumSeq(avail) ELSE Len(row)

\* EpsilonBlend without the uniform term
EpsilonBlend_NoFloor(p, eps, num) ==
    IF num = 0 \/ p.d = 0 THEN NonFinite
    ELSE Rat((EpsDen - eps) * p.n, EpsDen * p.d)

\* (1 - epsilon) * p + 1 * epsilon / epsilon_action_num
EpsilonBlend(p, eps, num) ==
    IF num = 0 \/ p.d = 0 THEN NonFinite
    ELSE Rat((EpsDen - eps) * p.n * num + eps * p.d, EpsDen * p.d * num)

\* agent_outs[reshaped_avail_actions == 0] = 0.0
ZeroUnavailable(row, avail) ==
    Tup([i \in 1..Len(row) |-> IF avail[i] = 0 THEN Rat(0, 1) ELSE row[i]])

\* the epsilon floor of one row, applied when not test_mode
EpsilonFloor(args, eps, probs, avail) ==
    LET num == EpsilonActionNum(args, probs, avail)
        blended == Tup([i \in 1..Len(probs) |-> EpsilonBlend(probs[i], eps, num)])
    IN  IF args.mask_before_softmax THEN ZeroUnavailable(blended, avail) ELSE blended

\* the policy-logit branch of forward for one row
PolicyRow(args, eps, logits, avail, test_mode) ==
    LET masked == IF args.mask_before_softmax THEN MaskLogits(logits, avail) ELSE logits
        probs == Softmax(masked)
    IN  IF test_mode THEN probs ELSE EpsilonFloor(args, eps, probs, avail)

\* the value forward returns for one row
OutputRow(args, eps, logits, avail, test_mode) ==
    IF args.agent_output_type = "pi_logits"
    THEN PolicyRow(args, eps, logits, avail, test_mode)
    ELSE Tup([i \in 1..Len(logits) |-> Rat(logits[i], 1)])

\* ForwardResult that starts from a zero hidden state when none was installed
ForwardResult_LazyInit(args, eps, hidden, repre, w, batch, t, task, test_mode) ==
    LET agent_inputs == BuildInputs(batch, t, task)
        rows == GetTaskRepresRows(repre, task)
        task_repre == Tup([r \in 1..Len(agent_inputs) |-> rows[((r - 1) % Len(rows)) + 1]])
        hid == IF hidden.init THEN hidden
               ELSE [init |-> TRUE, h |-> Zeros(Len(agent_inputs))]
        err == AgentErr(agent_inputs, hid)
    IN  IF err # "none"
        THEN [err |-> err, logits |-> <<>>, outs |-> <<>>, hidden |-> hidden]
        ELSE LET agent_outs == AgentOuts(agent_inputs, hid, task_repre, task, w)
             IN  [err |-> "none",
                  logits |-> agent_outs,
                  outs |-> Tup([r \in 1..Len(agent_outs) |->
                              OutputRow(args, eps, agent_outs[r],
                                        batch.avail_actions[r], test_mode)]),
                  hidden |-> AgentHidden(agent_inputs, hid)]

\* forward(ep_batch, t, task, test_mode): the error it raises, the raw agent
\* outputs, the returned outputs and the hidden state it leaves
ForwardResult(args, eps, hidden, repre, w, batch, t, task, test_mode) ==
    LET agent_inputs == BuildInputs(batch, t, task)
        bs == Len(agent_inputs) \div task2n_agents[task]
        rows == GetTaskRepresRows(repre, task)
        task_repre == Tup([r \in 1..(bs * Len(rows)) |-> rows[((r - 1) % Len(rows)) + 1]])
        err == AgentErr(agent_inputs, hidden)
    IN  IF err # "none"
        THEN [err |-> err, logits |-> <<>>, outs |-> <<>>, hidden |-> hidden]
        ELSE LET agent_outs == AgentOuts(agent_inputs, hidden, task_repre, task, w)
             IN  [err |-> "none",
                  logits |-> agent_outs,
                  outs |-> Tup([r \in 1..Len(agent_outs) |->
                              OutputRow(args, eps, agent_outs[r],
                                        batch.avail_actions[r], test_mode)]),
                  hidden |-> AgentHidden(agent_inputs, hidden)]

---------------------------------------------------------------------------
(* The controller's operations *)

NoFile == [present |-> FALSE, data |-> <<>>]
File(x) == [present |-> TRUE, data |-> <<x>>]

NoRet == [op |-> "none", err |-> "none", task |-> "t1", test_mode |-> FALSE,
          require_grad |-> FALSE, pre_hidden |-> NoHidden, avail |-> <<>>, logits |-> <<>>,
          outs |-> <<>>, chosen |-> <<>>, repre |-> <<>>, aux |-> <<>>]

\* the batch sizes init_hidden is called with
InitBatchSizes == {1, 2}

\* init_hidden(batch_size, task)
InitHidden(Sizes, Ts) ==
    \E batch_size \in Sizes, task \in Ts :
        /\ hidden_states' =
              [init |-> TRUE,
               h |-> Tup([r \in 1..(batch_size * task2n_agents[task]) |-> AgentInitHidden])]
        /\ ret' = [NoRet EXCEPT !.op = "init_hidden", !.task = task]
        /\ UNCHANGED <<main_args, epsilon, task2repre, agent_w, dynamic_encoder_w,
                       disk, call, mix_vars>>

\* the runner gathers the arguments of its next forward / select_actions
NewCall(Bs) ==
    /\ \E task \in Tasks, test_mode \in BOOLEAN :
         \E batch \in Bs[task] :
            call' = [task |-> task, test_mode |-> test_mode, batch |-> batch]
    /\ call' # call
    /\ UNCHANGED <<main_args, epsilon, hidden_states, task2repre, agent_w,
                   dynamic_encoder_w, disk, ret, mix_vars>>

\* forward(ep_batch, t, task, test_mode)
Forward ==
    LET res == ForwardResult(main_args, epsilon, hidden_states, task2repre,
                             agent_w, call.batch, call.batch.t, call.task,
                             call.test_mode)
    IN  /\ hidden_states' = res.hidden
        /\ ret' = [NoRet EXCEPT !.op = "forward", !.err = res.err,
                      !.task = call.task, !.test_mode = call.test_mode,
                      !.pre_hidden = hidden_states,
                      !.avail = call.batch.avail_actions,
                      !.logits = res.logits, !.outs = res.outs]
        /\ UNCHANGED <<main_args, epsilon, task2repre, agent_w,
                       dynamic_encoder_w, disk, call, mix_vars>>

\* select_actions(ep_batch, t_ep, t_env, task, bs, test_mode): forward, then
\* the action selector picks for every agent
SelectActions ==
    LET res == ForwardResult(main_args, epsilon, hidden_states, task2repre,
                             agent_w, call.batch, call.batch.t, call.task,
                             call.test_mode)
        can == Tup([r \in 1..Len(res.outs) |->
                   Selectable(main_args, res.outs[r], call.batch.avail_actions[r])])
        base == [NoRet EXCEPT !.op = "select_actions", !.task = call.task,
                    !.test_mode = call.test_mode, !.pre_hidden = hidden_states,
                    !.avail = call.batch.avail_actions,
                    !.logits = res.logits, !.outs = res.outs]
    IN  /\ hidden_states' = res.hidden
        /\ IF res.err # "none"
           THEN ret' = [base EXCEPT !.err = res.err]
           ELSE IF \E r \in 1..Len(can) : can[r] = {}
           THEN ret' = [base EXCEPT !.err = "SelectorError"]
           ELSE \E chosen \in [1..Len(can) -> 1..task2n_actions[call.task]] :
                   /\ \A r \in 1..Len(can) : chosen[r] \in can[r]
                   /\ ret' = [base EXCEPT !.chosen = chosen]
        /\ UNCHANGED <<main_args, epsilon, task2repre, agent_w, dynamic_encoder_w,
                       disk, call, mix_vars>>

\* get_task_repres(task, require_grad)
GetTaskRepres ==
    \E task \in Tasks, require_grad \in BOOLEAN :
        /\ ret' = IF GetTaskRepresErr(require_grad) # "none"
                  THEN [NoRet EXCEPT !.op = "get_task_repres", !.task = task,
                           !.require_grad = require_grad,
                           !.err = GetTaskRepresErr(require_grad)]
                  ELSE [NoRet EXCEPT !.op = "get_task_repres", !.task = task,
                           !.require_grad = require_grad,
                           !.repre = GetTaskRepresRows(task2repre, task)]
        /\ UNCHANGED <<main_args, epsilon, hidden_states, task2repre, agent_w,
                       dynamic_encoder_w, disk, call, mix_vars>>

\* the batch keys task_encoder_forward reads at t
EncoderBatches ==
    [task \in Tasks |->
        {[obs |-> b.obs, state |-> st, action |-> b.prev_action] :
            b \in {x \in Batches(task) : \A i \in 1..task2n_actions[task] :
                                            x.avail_actions[1][i] = 1},
            st \in {0, 1}}]
SmallEncoderBatches ==
    [task \in Tasks |-> {b \in EncoderBatches[task] : b.obs[1] = 1 /\ b.state = 0}]

\* TaskEncoderForward that leaves the encoder's recurrent input in
\* self.hidden_states
TaskEncoderForward_Hidden(Bs) ==
    \E task \in Tasks :
      \E batch \in Bs[task] :
        /\ ret' = [NoRet EXCEPT !.op = "task_encoder_forward", !.task = task]
        /\ hidden_states' = [init |-> TRUE,
                             h |-> Zeros(Len(batch.obs))]
        /\ UNCHANGED <<main_args, epsilon, task2repre, agent_w,
                       dynamic_encoder_w, disk, call, mix_vars>>

\* task_encoder_forward(batch, t, task)
TaskEncoderForward(Bs) ==
    \E task \in Tasks :
      \E batch \in Bs[task] :
        LET task_repre == GetTaskRepresRows(task2repre, task)
            actions == Tup([r \in 1..Len(batch.action) |->
                           OneHot(batch.action[r], task2n_actions[task])])
            enc == DynamicEncoder(dynamic_encoder_w, batch.obs, batch.state,
                                  actions, task, task_repre)
            dec == DynamicDecoder(task, enc.latent, enc.bs)
        IN  /\ ret' = [NoRet EXCEPT !.op = "task_encoder_forward", !.task = task,
                          !.aux = <<dec.next_obs, dec.next_state, dec.reward>>]
            /\ UNCHANGED <<main_args, epsilon, hidden_states, task2repre, agent_w,
                           dynamic_encoder_w, disk, call, mix_vars>>

\* save_models(path)
SaveModels ==
    /\ disk' = [disk EXCEPT !.agent = File(agent_w),
                            !.dynamic_encoder = File(dynamic_encoder_w)]
    /\ ret' = [NoRet EXCEPT !.op = "save_models"]
    /\ UNCHANGED <<main_args, epsilon, hidden_states, task2repre, agent_w,
                   dynamic_encoder_w, call, mix_vars>>

\* what load_models(path) leaves in self.agent
LoadModelsAgent(w, files) == IF files.agent.present THEN files.agent.data[1] ELSE w

\* what load_models(path) leaves in self.dynamic_encoder: the attribute the
\* method names, self.dynmaic_encoder, does not exist, so nothing is loaded
LoadModelsEncoder(w, files) == w

\* the error load_models(path) raises
LoadModelsErr(files) ==
    IF ~files.agent.present THEN "FileNotFoundError" ELSE "AttributeError"

\* load_models(path)
LoadModels ==
    /\ agent_w' = LoadModelsAgent(agent_w, disk)
    /\ dynamic_encoder_w' = LoadModelsEncoder(dynamic_encoder_w, disk)
    /\ ret' = [NoRet EXCEPT !.op = "load_models", !.err = LoadModelsErr(disk)]
    /\ UNCHANGED <<main_args, epsilon, hidden_states, task2repre, disk, call,
                   mix_vars>>

\* load_state(other_mac)
LoadState(Others) ==
    \E other_mac \in Others :
        /\ agent_w' = other_mac.agent
        /\ dynamic_encoder_w' = other_mac.dynamic_encoder
        /\ ret' = [NoRet EXCEPT !.op = "load_state"]
        /\ UNCHANGED <<main_args, epsilon, hidden_states, task2repre, disk, call,
                   mix_vars>>

\* save_task_repres(path, task)
SaveTaskRepres ==
    \E task \in Tasks :
        /\ disk' = [disk EXCEPT !.repre[task] = File(task2repre[task])]
        /\ ret' = [NoRet EXCEPT !.op = "save_task_repres", !.task = task]
        /\ UNCHANGED <<main_args, epsilon, hidden_states, task2repre, agent_w,
                       dynamic_encoder_w, call, mix_vars>>

---------------------------------------------------------------------------
(* QMixer *)

\* args.n_agents and the decomposer's attributes of the mixer's task
n_agents == 2
n_enemies == 1
state_nf_al == 1
state_nf_en == 1
n_actions_no_attack == 1
\* args.mixing_embed_dim, args.attn_embed_dim, args.entity_embed_dim
embed_dim == 2
attn_embed_dim == 1
entity_embed_dim == 1
n_entities == n_agents + n_enemies

\* a learned weight: a fixed pattern of values in -2 .. 2 per network seed
Wt(seed, k) == ((seed * 7 + k * 3) % 5) - 2

\* nn.Linear(n_in, n_out) of the network seed, its weights at offset id
LinearW(seed, id, n_out, n_in) ==
    Tup([o \in 1..n_out |-> Tup([k \in 1..n_in |-> Wt(seed, id + 5 * o + k)])])
LinearB(seed, id, n_out) == Tup([o \in 1..n_out |-> Wt(seed, id + 3 + o)])

\* the layer applied to the vector x
Linear(seed, id, n_out, x) ==
    LET W == LinearW(seed, id, n_out, Len(x))
        b == LinearB(seed, id, n_out)
    IN  Tup([o \in 1..n_out |-> Dot(W[o], x) + b[o]])

\* decomposer.decompose_state(states): the ally features, the enemy features
\* and the last-action one-hots, one entry per entity
DecomposeState(states) ==
    [ally_states |-> states.ally, enemy_states |-> states.enemy,
     last_action_states |-> states.last_action]

\* decomposer.decompose_action_info(last_action_states): per ally the
\* no-attack one-hot followed by an attack flag
CompactActionStates(last_action) ==
    Tup([a \in 1..Len(last_action) |->
        SubSeq(last_action[a], 1, n_actions_no_attack)
        \o <<SumSeq(SubSeq(last_action[a], n_actions_no_attack + 1, Len(last_action[a])))>>])

\* entity_embed: the encoded allies followed by the encoded enemies
EntityEmbed(m, states) ==
    LET dec == DecomposeState(states)
        compact == CompactActionStates(dec.last_action_states)
        ally_states == Tup([a \in 1..n_agents |->
                           IF m.state_last_action
                           THEN dec.ally_states[a] \o compact[a]
                           ELSE dec.ally_states[a]])
        ally_embed == Tup([a \in 1..n_agents |->
                          Linear(m.seed, 0, entity_embed_dim, ally_states[a])])
        enemy_embed == Tup([e \in 1..n_enemies |->
                           Linear(m.seed, 10, entity_embed_dim, dec.enemy_states[e])])
    IN  ally_embed \o enemy_embed

\* attn_out: softmax of the query-key energies over the query axis (dim=1),
\* the entity embeddings combined by it, the mean over the key axis.  In
\* fixed point: every division rounds down.
AttnOut(m, states) ==
    LET entity_embed == EntityEmbed(m, states)
        proj_query == Tup([i \in 1..n_entities |-> Linear(m.seed, 20, attn_embed_dim, entity_embed[i])])
        proj_key == Tup([j \in 1..n_entities |-> Linear(m.seed, 30, attn_embed_dim, entity_embed[j])])
        energy == Tup([i \in 1..n_entities |->
                      Tup([j \in 1..n_entities |-> Dot(proj_query[i], proj_key[j])])])
        column(j) == Tup([i \in 1..n_entities |-> energy[i][j]])
        attn_score(j) == Softmax(column(j))
        combined(d, j) ==
            SumSeq(Tup([i \in 1..n_entities |-> entity_embed[i][d] * attn_score(j)[i].n]))
                \div attn_score(j)[1].d
    IN  Tup([d \in 1..entity_embed_dim |->
            SumSeq(Tup([j \in 1..n_entities |-> combined(d, j)])) \div n_entities])

\* MixerErr that never raises
MixerErr_Never(m) == "none"

\* the error forward raises
MixerErr(m) == IF m.state_timestep_number THEN "Exception: Not Implemented" ELSE "none"

\* mixing_input: the attention context repeated for every agent, with the
\* agent's task representation appended
MixingInput(m, states, task_repre_mu) ==
    LET attn_out == AttnOut(m, states)
    IN  Tup([a \in 1..n_agents |-> attn_out \o task_repre_mu[a]])

\* self.hyper_w_1(mixing_input): [n_agents][embed_dim]
HyperW1Raw(m, mixing_input) ==
    Tup([a \in 1..n_agents |-> Linear(m.seed, 40, embed_dim, mixing_input[a])])

\* HyperW1 without the absolute value
HyperW1_NoAbs(m, mixing_input) == HyperW1Raw(m, mixing_input)

\* w1 = th.abs(self.hyper_w_1(mixing_input)): [n_agents][embed_dim]
HyperW1(m, mixing_input) ==
    LET raw == HyperW1Raw(m, mixing_input)
    IN  Tup([a \in 1..n_agents |-> Tup([e \in 1..embed_dim |-> Abs(raw[a][e])])])

\* b1 = self.hyper_b_1(mixing_input).mean(dim=2)
HyperB1(m, mixing_input) ==
    Tup([e \in 1..embed_dim |->
        SumSeq(Tup([a \in 1..n_agents |-> Linear(m.seed, 50, embed_dim, mixing_input[a])[e]]))
            \div n_agents])

\* w_final = th.abs(self.hyper_w_final(mixing_input)).mean(dim=2)
HyperWFinal(m, mixing_input) ==
    Tup([e \in 1..embed_dim |->
        SumSeq(Tup([a \in 1..n_agents |->
                   Abs(Linear(m.seed, 60, embed_dim, mixing_input[a])[e])]))
            \div n_agents])

Relu(x) == IF x > 0 THEN x ELSE 0

\* v = self.V(mixing_input).mean(dim=2): Linear, ReLU, Linear
StateValue(m, mixing_input) ==
    SumSeq(Tup([a \in 1..n_agents |->
               Linear(m.seed, 80, 1,
                      Tup([e \in 1..embed_dim |->
                          Relu(Linear(m.seed, 70, embed_dim, mixing_input[a])[e])]))[1]]))
        \div n_agents

\* F.elu(x), scaled by ExpScale: x for x > 0, exp(x) - 1 otherwise
Elu(x) == IF x > 0 THEN x * ExpScale ELSE ExpFx(x) - ExpScale

\* q_tot of forward(agent_qs, states, task_repre_mu), scaled by ExpScale
QTot(m, agent_qs, states, task_repre_mu) ==
    LET mixing_input == MixingInput(m, states, task_repre_mu)
        w1 == HyperW1(m, mixing_input)
        b1 == HyperB1(m, mixing_input)
        hidden == Tup([e \in 1..embed_dim |->
                      Elu(SumSeq(Tup([a \in 1..n_agents |-> agent_qs[a] * w1[a][e]])) + b1[e])])
        w_final == HyperWFinal(m, mixing_input)
        v == StateValue(m, mixing_input)
    IN  Dot(hidden, w_final) + v * ExpScale

\* An input of QMixer.forward (one episode, one timestep): per entity its
\* state features, per ally the one-hot of its last action
MixStates ==
    {[ally |-> al, enemy |-> en,
      last_action |-> Tup([a \in 1..n_agents |->
                          OneHot(((a - 1) % (n_actions_no_attack + n_enemies)) + 1,
                                 n_actions_no_attack + n_enemies)])] :
        al \in [1..n_agents -> [1..state_nf_al -> {0, 1}]],
        en \in [1..n_enemies -> [1..state_nf_en -> {0, 1}]]}

\* the task representation, repeated for every agent
MixRepres == {Tup([a \in 1..n_agents |-> OneHot(i, ReprDim)]) : i \in 1..ReprDim}

\* per-agent values are drawn from -MaxQ .. MaxQ
MaxQ == 1
AgentQs == [1..n_agents -> (-MaxQ)..MaxQ]

NoMixRet == [op |-> "none", err |-> "none", mixing_input |-> <<>>, q_tot |-> <<>>,
             raised |-> <<>>]

\* what forward(agent_qs, states, task_repre_mu) raises or returns
MixerResult(m, in) ==
    IF MixerErr(m) # "none"
    THEN [NoMixRet EXCEPT !.op = "forward", !.err = MixerErr(m)]
    ELSE [NoMixRet EXCEPT !.op = "forward",
             !.mixing_input = MixingInput(m, in.states, in.task_repre_mu),
             !.q_tot = <<QTot(m, in.agent_qs, in.states, in.task_repre_mu)>>]

\* QMixer.forward(agent_qs, states, task_repre_mu) on the current arguments
MixerForward ==
    /\ mix_ret' = MixerResult(mixer, mix_in)
    /\ UNCHANGED <<mixer, mix_in, ctrl_vars>>

\* QMixer.forward called again with one agent's value raised and everything
\* else as in the call before; raised records that agent and the q_tot of
\* the call before
MixerForwardRaised ==
    /\ mix_ret.op = "forward"
    /\ \E a \in 1..n_agents :
          /\ mix_in.agent_qs[a] < MaxQ
          /\ mix_in' = [mix_in EXCEPT !.agent_qs[a] = @ + 1]
          /\ mix_ret' = [MixerResult(mixer, mix_in') EXCEPT
                            !.raised = <<a>> \o mix_ret.q_tot]
    /\ UNCHANGED <<mixer, ctrl_vars>>

---------------------------------------------------------------------------
(* Specifications *)

MixerSeeds == {1, 2, 3}
IdleMixer ==
    /\ mixer = [seed |-> 1, state_last_action |-> FALSE, state_timestep_number |-> FALSE]
    /\ mix_in = [agent_qs |-> <<>>, states |-> <<>>, task_repre_mu |-> <<>>]
    /\ mix_ret = NoMixRet

NoDisk == [agent |-> NoFile, dynamic_encoder |-> NoFile,
           repre |-> [task \in Tasks |-> NoFile]]

\* the rows of th.rand that give every task its own axis
AxisRand == Tup([i \in 1..Len(train_tasks) |-> OneHot(i, ReprDim)])

\* the argument lists forward can be called with, over the batches Bs
Calls(Bs) ==
    UNION {{[task |-> task, test_mode |-> test_mode, batch |-> batch] :
               test_mode \in BOOLEAN, batch \in Bs[task]} : task \in Tasks}

PolicyArgs ==
    [agent_output_type : {"pi_logits"}, mask_before_softmax : BOOLEAN]
    \cup [agent_output_type : {"q"}, mask_before_softmax : {TRUE}]

\* The controller after construction, before any call, with the arguments of
\* the runner's calls.  main_args and the selector's epsilon are
\* configuration.
InitPolicy ==
    /\ main_args \in PolicyArgs
    /\ epsilon \in EpsVals
    /\ hidden_states = NoHidden
    /\ task2repre = InitTaskRepres(AxisRand)
    /\ agent_w = <<1, 0, -1>>
    /\ dynamic_encoder_w = 1
    /\ disk = NoDisk
    /\ ret = NoRet
    /\ call \in Calls(AllBatches)
    /\ IdleMixer

NextPolicy ==
    \/ InitHidden({call.batch.batch_size}, {call.task})
    \/ Forward
    \/ SelectActions

\* forward and select_actions on every configuration and batch
SpecPolicy == InitPolicy /\ [][NextPolicy]_vars

Init ==
    /\ main_args \in PolicyArgs
    /\ epsilon = 1
    /\ hidden_states = NoHidden
    /\ task2repre = InitTaskRepres(AxisRand)
    /\ agent_w = <<1, 0, -1>>
    /\ dynamic_encoder_w = 1
    /\ disk = NoDisk
    /\ ret = NoRet
    /\ call \in Calls(SmallBatches)
    /\ IdleMixer

Next ==
    \/ InitHidden(InitBatchSizes, Tasks)
    \/ NewCall(SmallBatches)
    \/ Forward
    \/ SelectActions
    \/ GetTaskRepres
    \/ TaskEncoderForward(EncoderBatches)

\* the episode-time operations of the controller, in any order
Spec == Init /\ [][Next]_vars

\* Construction with every random matrix th.rand can draw on which
\* init_task_repres completes
InitRepre ==
    /\ main_args = [agent_output_type |-> "pi_logits", mask_before_softmax |-> TRUE]
    /\ epsilon = 1
    /\ hidden_states = NoHidden
    /\ \E rand \in RandMatrices :
          /\ LinearlyIndependent(rand)
          /\ task2repre = InitTaskRepres(rand)
    /\ agent_w = <<1, 0, -1>>
    /\ dynamic_encoder_w = 1
    /\ disk = NoDisk
    /\ ret = NoRet
    /\ call \in Calls(SmallBatches)
    /\ IdleMixer

NextRepre ==
    \/ InitHidden({call.batch.batch_size}, {call.task})
    \/ Forward
    \/ SelectActions
    \/ GetTaskRepres
    \/ TaskEncoderForward(SmallEncoderBatches)
    \/ LoadState({[agent |-> <<0, 1, 1>>, dynamic_encoder |-> 2]})
    \/ SaveTaskRepres

\* the task-representation store under the controller's operations
SpecRepre == InitRepre /\ [][NextRepre]_vars

OtherMacs == [agent : AgentWeights, dynamic_encoder : EncoderWeights]

InitPersist ==
    /\ main_args = [agent_output_type |-> "pi_logits", mask_before_softmax |-> TRUE]
    /\ epsilon = 1
    /\ hidden_states = NoHidden
    /\ task2repre = InitTaskRepres(AxisRand)
    /\ agent_w \in AgentWeights
    /\ dynamic_encoder_w \in EncoderWeights
    /\ disk = NoDisk
    /\ ret = NoRet
    /\ call \in {c \in Calls(SmallBatches) : c.task = "t1" /\ c.test_mode}
    /\ IdleMixer

NextPersist ==
    \/ SaveModels
    \/ LoadModels
    \/ LoadState(OtherMacs)
    \/ InitHidden({call.batch.batch_size}, {call.task})
    \/ Forward
    \/ TaskEncoderForward(SmallEncoderBatches)

\* saving and restoring the weights
SpecPersist == InitPersist /\ [][NextPersist]_vars

InitMixer ==
    /\ main_args = [agent_output_type |-> "q", mask_before_softmax |-> TRUE]
    /\ epsilon = 0
    /\ hidden_states = NoHidden
    /\ task2repre = InitTaskRepres(AxisRand)
    /\ agent_w = <<1, 0, -1>>
    /\ dynamic_encoder_w = 1
    /\ disk = NoDisk
    /\ ret = NoRet
    /\ call \in {c \in Calls(SmallBatches) : c.task = "t1" /\ c.test_mode}
    /\ mixer \in [seed : MixerSeeds, state_last_action : BOOLEAN,
                  state_timestep_number : BOOLEAN]
    /\ mix_in \in [agent_qs : AgentQs, states : MixStates, task_repre_mu : MixRepres]
    /\ mix_ret = NoMixRet

NextMixer ==
    \/ MixerForward
    \/ MixerForwardRaised

\* the mixer's forward on every input
SpecMixer == InitMixer /\ [][NextMixer]_vars

---------------------------------------------------------------------------
(* Properties *)

PiLogits == main_args.agent_output_type = "pi_logits"
\* forward has returned outputs (to its caller, or to select_actions)
ForwardReturned == ret.op \in {"forward", "select_actions"} /\ ret.outs # <<>>
Rows == 1..Len(ret.outs)
NumAvail(r) == SumSeq(ret.avail[r])
UnavailableZero(r) ==
    \A i \in 1..Len(ret.outs[r]) : ret.avail[r][i] = 0 => IsZero(ret.outs[r][i])
SumOverAvailable(r) == RatSum(SelectIdx(ret.outs[r], ret.avail[r], 1))

\* C1 as stated: with policy logits, forward gives probability exactly 0 to
\* every unavailable action, in test mode and in training mode (read for the
\* agents that have an action to spread the probability over).
C1_AsStated ==
    (PiLogits /\ ForwardReturned)
        => \A r \in Rows : NumAvail(r) >= 1 => UnavailableZero(r)

\* C1: with policy logits and mask_before_softmax enabled, forward gives
\* probability exactly 0 to every unavailable action: in training mode for
\* every availability mask, in test mode for every agent that has at least
\* one available action.
C1_UnavailableZero ==
    (PiLogits /\ main_args.mask_before_softmax /\ ForwardReturned)
        => \A r \in Rows : (~ret.test_mode \/ NumAvail(r) >= 1) => UnavailableZero(r)

\* the mask [1,0,1] of the 3-action task in test mode: index 2 gets 0, the
\* others a positive probability
C1_Witness ==
    /\ PiLogits /\ main_args.mask_before_softmax /\ ForwardReturned
    /\ ret.task = "t1" /\ ret.test_mode
    /\ ret.avail[1] = <<1, 0, 1>>
    /\ IsZero(ret.outs[1][2])
    /\ ret.outs[1][1].n > 0 /\ ret.outs[1][3].n > 0

\* C2 as stated: with policy logits, the probabilities forward returns sum
\* to 1 over the available actions of every agent, for every mask, in both
\* modes (read for the agents that have an available action).
C2_AsStated ==
    (PiLogits /\ ForwardReturned)
        => \A r \in Rows : NumAvail(r) >= 1 => SumOverAvailable(r) = Rat(1, 1)

\* C2: with policy logits and mask_before_softmax enabled, the probabilities
\* forward returns sum to 1 over the available actions of every agent that
\* has at least one available action, in both modes.
C2_SumsToOne ==
    (PiLogits /\ main_args.mask_before_softmax /\ ForwardReturned)
        => \A r \in Rows : NumAvail(r) >= 1 => SumOverAvailable(r) = Rat(1, 1)

\* training mode, 0 < epsilon < 1, an agent with available and unavailable
\* actions whose probabilities sum to 1 after the blend and the re-zeroing
C2_Witness ==
    /\ PiLogits /\ main_args.mask_before_softmax /\ ForwardReturned
    /\ ~ret.test_mode /\ epsilon > 0 /\ epsilon < EpsDen
    /\ \E r \in Rows :
          /\ NumAvail(r) >= 2 /\ NumAvail(r) < Len(ret.avail[r])
          /\ SumOverAvailable(r) = Rat(1, 1)

\* every available action of row r has probability >= epsilon / (number
\* available)
HasFloor(r) ==
    \A i \in 1..Len(ret.outs[r]) :
        ret.avail[r][i] = 1 => RatGeq(ret.outs[r][i], epsilon, EpsDen * NumAvail(r))
\* row r is the softmax of the masked logits
PlainMaskedSoftmax(r) == ret.outs[r] = Softmax(MaskLogits(ret.logits[r], ret.avail[r]))

C4_Monotonic ==
    (mix_ret.op = "forward" /\ mix_ret.err = "none" /\ Len(mix_ret.raised) = 2)
        => mix_ret.q_tot[1] >= mix_ret.raised[2]

\* a raised value that raised q_tot, through a first-layer weight whose
\* hypernetwork output is negative
C4_Witness ==
    /\ mix_ret.op = "forward" /\ mix_ret.err = "none" /\ Len(mix_ret.raised) = 2
    /\ mix_ret.q_tot[1] > mix_ret.raised[2]
    /\ \E e \in 1..embed_dim :
          HyperW1Raw(mixer, mix_ret.mixing_input)[mix_ret.raised[1]][e] < 0

\* C5 as stated: load_models on saved files completes and leaves the policy
\* weights and the shared-encoder weights equal to the saved ones.
C5_AsStated ==
    (ret.op = "load_models" /\ disk.agent.present /\ disk.dynamic_encoder.present)
        => /\ ret.err = "none"
           /\ agent_w = disk.agent.data[1]
           /\ dynamic_encoder_w = disk.dynamic_encoder.data[1]

C7_Result ==
    ret.op = "get_task_repres"
        => IF ret.require_grad
           THEN ret.err = "AssertionError" /\ ret.repre = <<>>
           ELSE /\ ret.err = "none"
                /\ Len(ret.repre) = task2n_agents[ret.task]
                /\ \A a \in 1..Len(ret.repre) : ret.repre[a] = task2repre[ret.task]

\* C7: get_task_repres with require_grad=True raises and returns nothing;
\* with require_grad=False it returns the task's stored vector once per agent
\* of the task; no call of it changes the stored representations, the hidden
\* state or any other attribute of the controller.
C7_GetTaskRepres ==
    /\ []C7_Result
    /\ [][GetTaskRepres => UNCHANGED <<main_args, epsilon, hidden_states, task2repre,
                                       agent_w, dynamic_encoder_w, disk>>]_vars

\* an accepted call for the two-agent task, after the hidden state was installed
C7_Witness ==
    /\ ret.op = "get_task_repres" /\ ~ret.require_grad
    /\ ret.task = "t2" /\ Len(ret.repre) = 2
    /\ hidden_states.init

\* C8: task_encoder_forward changes neither the hidden state nor the stored
\* task representations, nor anything else forward computes from (the
\* configuration, the selector's epsilon, the policy weights), so every
\* forward call returns and installs after it what it would have without it.
C8_AuxiliaryPathFrame ==
    [][TaskEncoderForward(EncoderBatches)
          => UNCHANGED <<hidden_states, task2repre, main_args, epsilon, agent_w>>]_vars

\* task_encoder_forward has run on a hidden state that forward had advanced
C8_Witness ==
    /\ ret.op = "task_encoder_forward"
    /\ hidden_states.init
    /\ \E r \in 1..Len(hidden_states.h) : hidden_states.h[r] # AgentInitHidden

\* the mixing input is the attention context followed by the agent's task
\* representation, once per agent
BroadcastContext ==
    /\ Len(mix_ret.mixing_input) = n_agents
    /\ \A a \in 1..n_agents :
          mix_ret.mixing_input[a]
              = AttnOut(mixer, mix_in.states) \o mix_in.task_repre_mu[a]

\* C9: with state_timestep_number enabled every forward raises and returns no
\* q_tot; with it disabled forward builds the mixing input from the attention
\* context broadcast to all n_agents slots and returns a q_tot.
C9_TimestepMode ==
    mix_ret.op = "forward"
        => IF mixer.state_timestep_number
           THEN mix_ret.err # "none" /\ mix_ret.q_tot = <<>>
           ELSE mix_ret.err = "none" /\ Len(mix_ret.q_tot) = 1 /\ BroadcastContext

\* forward was called on a mixer whose decomposer has the timestep feature
C9_Witness ==
    /\ mix_ret.op = "forward" /\ mixer.state_timestep_number
    /\ mix_ret.err = "Exception: Not Implemented"

UnitNorm(x) == x.nsq > 0 /\ Dot(x.v, x.v) = x.nsq
Orthonormal ==
    /\ DOMAIN task2repre = Tasks
    /\ \A task \in Tasks : Len(task2repre[task].v) = ReprDim /\ UnitNorm(task2repre[task])
    /\ \A t1 \in Tasks, t2 \in Tasks :
          t1 # t2 => Dot(task2repre[t1].v, task2repre[t2].v) = 0

\* C10: after construction with at most task_repre_dim tasks the store holds
\* one vector per training task, each of unit norm, every two of distinct
\* tasks with dot product 0; and no controller operation changes a stored
\* vector.
C10_Orthonormal ==
    /\ []Orthonormal
    /\ [][task2repre' = task2repre]_vars

\* a store whose second vector had a projection removed, after the
\* representations were saved and a forward call went through
C10_Witness ==
    /\ \E k \in 1..ReprDim : task2repre["t2"].v[k] < 0
    /\ disk.repre["t2"].present
    /\ ret.op = "forward" /\ ret.err = "none"

====
